---- MODULE Spec2Model ----
(***************************************************************************)
(* Model of toyolo.py: conversion of SoccerNet tracking annotations to     *)
(* YOLO polygon label files.                                               *)
(*                                                                         *)
(* Python strings are sequences of one-character strings, so that          *)
(* substring tests and int() parsing are computed, not assumed.            *)
(***************************************************************************)
EXTENDS Integers, Sequences, FiniteSets, TLC

VARIABLES
    folders,     \* os.listdir(root_dir): the sequence directories, in listing order
    disk,        \* per sequence directory: gameinfo, seqinfo, gt, images, labels
    pc,          \* position of the script: "main", "frames", "done", "failed",
                 \* or "call"/"ret" for a single function application
    error,       \* the unhandled exception that ended the run, or None
    index,       \* enumerate(folders, start=1): the folder being processed
    tracklets,   \* process_data local: tracklet ID -> role string
    id_map,      \* process_data local: tracklet ID -> category code
    ball_id,     \* process_data local: the ball's tracklet ID, or None
    im_width,    \* process_data local
    im_height,   \* process_data local
    img_paths,   \* process_data local: glob result, the file name stems in glob order
    k,           \* position of the for loop over img_paths (1-based)
    written,     \* history: stem -> ground-truth row indices of the lines written,
                 \* for every label file opened by the current process_data call
    run,         \* history: number of the current invocation of the script
    globbed,     \* history: folder -> the glob order of its process_data call in this run
    before,      \* history: labels/ of every folder when this invocation began, and how
                 \* the previous invocation ended
    args,        \* arguments of a single function application
    result       \* its return value

vars == <<folders, disk, pc, error, index, tracklets, id_map, ball_id, im_width,
          im_height, img_paths, k, written, run, globbed, before, args,
          result>>

None == "None"

Range(s) == {s[i] : i \in DOMAIN s}

(***************************************************************************)
(* Strings                                                                 *)
(***************************************************************************)
Digits == <<"0", "1", "2", "3", "4", "5", "6", "7", "8", "9">>

IsDigit(c) == \E i \in 1..10 : Digits[i] = c

DigitVal(c) == (CHOOSE i \in 1..10 : Digits[i] = c) - 1

\* sub in s
Contains(sub, s) ==
    \E i \in 0..(Len(s) - Len(sub)) : SubSeq(s, i + 1, i + Len(sub)) = sub

RECURSIVE DigitsVal(_)
DigitsVal(s) ==
    IF s = <<>> THEN 0
    ELSE 10 * DigitsVal(SubSeq(s, 1, Len(s) - 1)) + DigitVal(s[Len(s)])

\* int(s) for a str: an optional sign and at least one decimal digit
PyIntBody(s) == IF s # <<>> /\ s[1] \in {"-", "+"} THEN Tail(s) ELSE s

PyIntOk(s) == PyIntBody(s) # <<>> /\ \A i \in DOMAIN PyIntBody(s) : IsDigit(PyIntBody(s)[i])

PyInt(s) == IF s[1] = "-" THEN 0 - DigitsVal(PyIntBody(s)) ELSE DigitsVal(PyIntBody(s))

S_goalkeeper == <<"g", "o", "a", "l", "k", "e", "e", "p", "e", "r">>
S_player == <<"p", "l", "a", "y", "e", "r">>
S_referee == <<"r", "e", "f", "e", "r", "e", "e">>
S_ball1 == <<"b", "a", "l", "l", ";", "1">>

(***************************************************************************)
(* INI files: section name -> (key -> value).  A missing file reads as an  *)
(* INI with no sections.                                                   *)
(***************************************************************************)
\* an option name is a tuple: <<"imwidth">>, or f"trackletID_{i}" as <<"trackletID_", i>>
TrackletKey(i) == <<"trackletID_", i>>

HasKey(ini, key) == "Sequence" \in DOMAIN ini /\ key \in DOMAIN ini["Sequence"]

\* a chain that tests "player" first
CategoryPlayerFirst(value) ==
    IF Contains(S_player, value) THEN 2
    ELSE IF Contains(S_goalkeeper, value) THEN 1
    ELSE IF Contains(S_referee, value) THEN 3
    ELSE 0

\* the category chain of parse_gameinfo
Category(value) ==
    IF Contains(S_goalkeeper, value) THEN 1
    ELSE IF Contains(S_player, value) THEN 2
    ELSE IF Contains(S_referee, value) THEN 3
    ELSE 0

Raise(e) == [err |-> e]

parse_gameinfo(ini) ==
    IF ~HasKey(ini, <<"num_tracklets">>) THEN Raise("KeyError")
    ELSE IF ~PyIntOk(ini["Sequence"][<<"num_tracklets">>]) THEN Raise("ValueError")
    ELSE LET num_tracklets == PyInt(ini["Sequence"][<<"num_tracklets">>])
         IN  IF \E i \in 1..num_tracklets : ~HasKey(ini, TrackletKey(i))
             THEN Raise("KeyError")
             ELSE [err |-> None,
                   tracklets |-> [i \in 1..num_tracklets |-> ini["Sequence"][TrackletKey(i)]],
                   id_map |-> [i \in 1..num_tracklets |->
                                  Category(ini["Sequence"][TrackletKey(i)])]]

parse_seqinfo(ini) ==
    IF "Sequence" \notin DOMAIN ini THEN Raise("KeyError")
    ELSE [err |-> None, parsed_data |-> ini["Sequence"]]

(***************************************************************************)
(* Arbitrary precision naturals as bit sequences, most significant bit     *)
(* first, without leading zeros (zero is the empty sequence).  They carry  *)
(* the 53 bit significands of Python floats.                               *)
(***************************************************************************)
Abs(n) == IF n < 0 THEN 0 - n ELSE n

RECURSIVE BvFromInt(_)
BvFromInt(n) == IF n = 0 THEN <<>> ELSE Append(BvFromInt(n \div 2), n % 2)

RECURSIVE BvToInt(_)
BvToInt(b) == IF b = <<>> THEN 0 ELSE 2 * BvToInt(SubSeq(b, 1, Len(b) - 1)) + b[Len(b)]

Zeros(n) == [i \in 1..n |-> 0]

\* without the leading zeros
BvStrip(b) ==
    IF \A i \in DOMAIN b : b[i] = 0 THEN <<>>
    ELSE SubSeq(b, CHOOSE i \in DOMAIN b : b[i] = 1 /\ \A j \in 1..(i - 1) : b[j] = 0, Len(b))

\* b * w + carry, for a small natural w, from the least significant bit
RECURSIVE BvMulAdd(_, _, _)
BvMulAdd(b, w, carry) ==
    IF b = <<>> THEN BvFromInt(carry)
    ELSE LET t == b[Len(b)] * w + carry
         IN  IF t % 2 = 0
             THEN Append(BvMulAdd(SubSeq(b, 1, Len(b) - 1), w, t \div 2), 0)
             ELSE Append(BvMulAdd(SubSeq(b, 1, Len(b) - 1), w, t \div 2), 1)

BvMul(b, w) == BvStrip(BvMulAdd(b, w, 0))

BvInc(b) == BvStrip(BvMulAdd(b, 1, 1))

(***************************************************************************)
(* Python floats (IEEE 754 binary64, round to nearest, ties to even):      *)
(* [neg, exp, man] stands for (-1)^neg * 1.man[2..53] * 2^exp; zero has an *)
(* empty significand.  The values of the model stay far from overflow and  *)
(* from subnormals.                                                        *)
(***************************************************************************)
MantBits == 53

FloatZero(neg) == [neg |-> neg, exp |-> 0, man |-> <<>>]

\* round the natural bits * 2^(exp - (Len(bits) - 1)), of which sticky says whether
\* a nonzero part below the last bit was left out, to MantBits significant bits
RoundBits(neg, exp, bits, sticky) ==
    IF Len(bits) <= MantBits
    THEN [neg |-> neg, exp |-> exp, man |-> bits \o Zeros(MantBits - Len(bits))]
    ELSE LET kept == SubSeq(bits, 1, MantBits)
             half == bits[MantBits + 1]
             rest == sticky \/ \E i \in (MantBits + 2)..Len(bits) : bits[i] = 1
             up   == half = 1 /\ (rest \/ kept[MantBits] = 1)
             inc  == BvInc(kept)
         IN  IF ~up THEN [neg |-> neg, exp |-> exp, man |-> kept]
             ELSE IF Len(inc) > MantBits
                  THEN [neg |-> neg, exp |-> exp + 1, man |-> SubSeq(inc, 1, MantBits)]
                  ELSE [neg |-> neg, exp |-> exp, man |-> inc]

\* n bits of the quotient r / d for r < d, followed by the last remainder
RECURSIVE LongDiv(_, _, _)
LongDiv(r, d, n) ==
    IF n = 0 THEN <<r>>
    ELSE IF 2 * r >= d THEN <<1>> \o LongDiv(2 * r - d, d, n - 1)
         ELSE <<0>> \o LongDiv(2 * r, d, n - 1)

\* the exponent of n / d for naturals n, d > 0: 2^e <= n / d < 2^(e + 1)
RECURSIVE Exponent(_, _)
Exponent(n, d) ==
    IF n < d THEN Exponent(2 * n, d) - 1
    ELSE IF n >= 2 * d THEN Exponent(n, 2 * d) + 1
    ELSE 0

Pow2(n) == BvToInt(<<1>> \o Zeros(n))

\* a // b: the floor of the quotient
FloorDiv(a, b) == RoundBits(a \div b < 0, Len(BvFromInt(Abs(a \div b))) - 1,
                            BvFromInt(Abs(a \div b)), FALSE)

\* a / b for Python ints, b # 0: the correctly rounded quotient
TrueDiv(a, b) ==
    IF a = 0 THEN FloatZero(b < 0)
    ELSE LET e == Exponent(Abs(a), Abs(b))
             n == IF e < 0 THEN Abs(a) * Pow2(0 - e) ELSE Abs(a)
             d == IF e > 0 THEN Abs(b) * Pow2(e) ELSE Abs(b)
             q == LongDiv(n - d, d, MantBits)
         IN  RoundBits((a < 0) # (b < 0), e,
                       <<1>> \o SubSeq(q, 1, MantBits), q[MantBits + 1] # 0)

(***************************************************************************)
(* rectangle_to_polygon_normalized                                         *)
(***************************************************************************)
rectangle_to_polygon_normalized(x0, y0, width, height, img_width, img_height) ==
    LET x1 == x0 + width
        y1 == y0
        x2 == x1
        y2 == y1 + height
        x3 == x0
        y3 == y0 + height
    IN  <<TrueDiv(x0, img_width), TrueDiv(y0, img_height),
          TrueDiv(x1, img_width), TrueDiv(y1, img_height),
          TrueDiv(x2, img_width), TrueDiv(y2, img_height),
          TrueDiv(x3, img_width), TrueDiv(y3, img_height)>>

(***************************************************************************)
(* process_data                                                            *)
(***************************************************************************)
\* a ball_id looked up under the role "ball"
BallIdOfRoleBall(trk) ==
    IF \E key \in DOMAIN trk : trk[key] = <<"b", "a", "l", "l">>
    THEN <<CHOOSE key \in DOMAIN trk : trk[key] = <<"b", "a", "l", "l">>>>
    ELSE <<>>

\* ball_id: the first tracklet whose role string is exactly "ball;1", else None.
\* An int that may be None is <<i>> or <<>>.
BallId(trk) ==
    IF \E key \in DOMAIN trk : trk[key] = S_ball1
    THEN <<CHOOSE key \in DOMAIN trk :
               /\ trk[key] = S_ball1
               /\ \A other \in DOMAIN trk : trk[other] = S_ball1 => key <= other>>
    ELSE <<>>

\* os.makedirs(label_dir, exist_ok=True) alone
KeepLabels(labels) == [exists |-> TRUE, files |-> labels.files]

\* shutil.rmtree(label_dir) if it exists, then os.makedirs(label_dir)
ResetLabels(labels) == [exists |-> TRUE, files |-> <<>>]

\* the position in the glob order taken for the frame
FrameIdByPosition(paths, pos) == pos

\* int(fname) of the k-th globbed image
FrameId(paths, pos) == PyInt(paths[pos])

\* df.groupby("frame_id").get_group(frame_id): the rows of the frame, as indices
\* into the table, in table order
RECURSIVE FrameRowsFrom(_, _, _)
FrameRowsFrom(gt, frame_id, i) ==
    IF i > Len(gt) THEN <<>>
    ELSE IF gt[i].frame_id = frame_id
         THEN <<i>> \o FrameRowsFrom(gt, frame_id, i + 1)
         ELSE FrameRowsFrom(gt, frame_id, i + 1)

\* the whole table, not grouped
AllRows(gt, frame_id) == [i \in 1..Len(gt) |-> i]

FrameRows(gt, frame_id) == FrameRowsFrom(gt, frame_id, 1)

\* row["track_id"] != ball_id
NotBall(track_id, ball) == <<track_id>> # ball

\* id_map.get(row["track_id"], 0)
LookupOrZero(map, track_id) ==
    [err |-> None, idt |-> IF track_id \in DOMAIN map THEN map[track_id] ELSE 0]

\* id_map[row["track_id"]]
Lookup(map, track_id) ==
    IF track_id \in DOMAIN map THEN [err |-> None, idt |-> map[track_id]]
    ELSE Raise("KeyError")

\* one written line: the category and the eight coordinates, the fields that
\* str() and " ".join() turn into text one to one
Line(idt, polygon_coords) == <<idt>> \o polygon_coords

\* the loop over temp_df.iterrows() inside the open file: the lines written (with
\* the rows they come from) until the rows end or a row raises
RECURSIVE RowLoop(_, _, _, _, _, _, _, _)
RowLoop(gt, rows, map, ball, w, h, lines, origin) ==
    IF rows = <<>> THEN [err |-> None, lines |-> lines, origin |-> origin]
    ELSE LET row == gt[Head(rows)]
         IN  IF ~NotBall(row.track_id, ball)
             THEN RowLoop(gt, Tail(rows), map, ball, w, h, lines, origin)
             ELSE IF Lookup(map, row.track_id).err # None
             THEN [err |-> Lookup(map, row.track_id).err, lines |-> lines,
                   origin |-> origin]
             ELSE IF w = 0 \/ h = 0
             THEN [err |-> "ZeroDivisionError", lines |-> lines, origin |-> origin]
             ELSE RowLoop(gt, Tail(rows), map, ball, w, h,
                          Append(lines,
                                 Line(Lookup(map, row.track_id).idt,
                                      rectangle_to_polygon_normalized(
                                          row.x0, row.y0, row.width, row.height, w, h))),
                          Append(origin, Head(rows)))

\* an exception that is caught and passed over
Swallowed(position) == position

\* what an exception does to the script: nothing catches it
Unhandled(position) == "failed"

(***************************************************************************)
(* The inputs: what a root directory may hold                              *)
(***************************************************************************)
MaxRuns == 2
MaxRows == 3
NumFolders == 2

Ini(pairs) == [section \in {"Sequence"} |-> pairs]
NoIni == <<>>

S_semi1 == <<";", "1">>

GameBall ==
    Ini((<<"num_tracklets">> :> <<"2">>) @@ (TrackletKey(1) :> S_player \o S_semi1)
        @@ (TrackletKey(2) :> S_ball1))
GameNoBall ==
    Ini((<<"num_tracklets">> :> <<"2">>) @@ (TrackletKey(1) :> S_goalkeeper \o S_semi1)
        @@ (TrackletKey(2) :> S_referee \o S_semi1))

SeqInfo(w, h) ==
    Ini((<<"imwidth">> :> w) @@ (<<"imheight">> :> h) @@ (<<"imext">> :> <<".", "j", "p", "g">>)
        @@ (<<"imdir">> :> <<"i", "m", "g", "1">>))

Row(f, t, x, y, w, h) ==
    [frame_id |-> f, track_id |-> t, x0 |-> x, y0 |-> y, width |-> w, height |-> h]

\* tracks 1 and 2 are tracklets of the two gameinfo files, track 3 is in neither;
\* the boxes are small ones at the top left corner
Rows == {Row(1, 1, 0, 0, 0, 1), Row(1, 2, 0, 0, 1, 0), Row(1, 3, 0, 0, 1, 1),
         Row(2, 1, 0, 0, 0, 2)}

Tables == UNION {[1..n -> Rows] : n \in 0..MaxRows}

\* the stems of the image files that match the extension
ImageSets == {{<<"0", "1">>}, {<<"1">>, <<"2">>}, {<<"2">>, <<"x">>}}

\* labels/ before the first run: absent, or left by an earlier run on other data
StaleLabels ==
    {[exists |-> FALSE, files |-> <<>>],
     [exists |-> TRUE, files |-> (<<"1">> :> <<<<9>>>>) @@ (<<"9">> :> <<>>)]}

\* gameinfo.ini and seqinfo.ini: good ones, an image width of 0, no gameinfo.ini
Configs ==
    {<<GameBall, SeqInfo(<<"4">>, <<"2">>)>>, <<GameNoBall, SeqInfo(<<"4">>, <<"2">>)>>,
     <<GameBall, SeqInfo(<<"0">>, <<"2">>)>>, <<NoIni, SeqInfo(<<"4">>, <<"2">>)>>}

SeqDir(config, gt, images, labels) ==
    [gameinfo |-> config[1], seqinfo |-> config[2], gt |-> gt, images |-> images,
     labels |-> labels]

\* a root directory with one folder holds any of these
SeqDirs ==
    {SeqDir(c, t, i, l) : c \in Configs, t \in Tables, i \in ImageSets, l \in StaleLabels}

\* a root directory with several folders holds these: a folder that converts, one
\* with a row of an unknown track, one without gameinfo.ini
SmallDirs ==
    {SeqDir(c, t, {<<"1">>, <<"2">>}, l) :
        c \in {<<GameBall, SeqInfo(<<"4">>, <<"2">>)>>},
        t \in {<<Row(1, 1, 0, 0, 0, 1), Row(2, 1, 0, 0, 0, 2)>>,
                <<Row(1, 3, 0, 0, 1, 1), Row(2, 1, 0, 0, 0, 2)>>},
        l \in StaleLabels}
    \cup {SeqDir(<<NoIni, SeqInfo(<<"4">>, <<"2">>)>>,
                  <<Row(1, 1, 0, 0, 0, 1), Row(2, 1, 0, 0, 0, 2)>>, {<<"1">>, <<"2">>}, l) :
             l \in StaleLabels}

Locals == <<tracklets, id_map, ball_id, im_width, im_height, img_paths, k>>

Init ==
    /\ \E n \in 1..NumFolders :
          /\ folders = [i \in 1..n |-> i]
          /\ disk \in [1..n -> IF n = 1 THEN SeqDirs ELSE SmallDirs]
    /\ pc = "main"
    /\ error = None
    /\ index = 1
    /\ tracklets = <<>> /\ id_map = <<>> /\ ball_id = <<>>
    /\ im_width = 0 /\ im_height = 0 /\ img_paths = <<>> /\ k = 0
    /\ written = <<>>
    /\ globbed = <<>>
    /\ run = 1
    /\ before = [pc |-> None, error |-> None, globbed |-> <<>>,
                 labels |-> [f \in DOMAIN disk |-> disk[f].labels]]
    /\ args = <<>>
    /\ result = <<>>

Dir == disk[folders[index]]

\* glob.glob returns the matching files in arbitrary order
GlobOrders(S) ==
    {p \in [1..Cardinality(S) -> S] : \A i, j \in 1..Cardinality(S) : p[i] = p[j] => i = j}

Fail(e) ==
    /\ pc' = Unhandled(pc)
    /\ error' = e

\* lines 106-130: the configuration, the reset of labels/, the glob
ProcessDataBegin ==
    /\ pc = "main"
    /\ index <= Len(folders)
    /\ LET game == parse_gameinfo(Dir.gameinfo)
           seq  == parse_seqinfo(Dir.seqinfo)
           bad  == IF game.err # None THEN game.err
                   ELSE IF seq.err # None THEN seq.err
                   ELSE IF <<"imwidth">> \notin DOMAIN seq.parsed_data THEN "KeyError"
                   ELSE IF ~PyIntOk(seq.parsed_data[<<"imwidth">>]) THEN "ValueError"
                   ELSE IF <<"imheight">> \notin DOMAIN seq.parsed_data THEN "KeyError"
                   ELSE IF ~PyIntOk(seq.parsed_data[<<"imheight">>]) THEN "ValueError"
                   ELSE IF <<"imext">> \notin DOMAIN seq.parsed_data THEN "KeyError"
                   ELSE IF <<"imdir">> \notin DOMAIN seq.parsed_data THEN "KeyError"
                   ELSE None
       IN  IF bad # None
           THEN /\ Fail(bad)
                /\ UNCHANGED <<disk, Locals, written, globbed>>
           ELSE /\ tracklets' = game.tracklets
                /\ id_map' = game.id_map
                /\ ball_id' = BallId(game.tracklets)
                /\ im_width' = PyInt(seq.parsed_data[<<"imwidth">>])
                /\ im_height' = PyInt(seq.parsed_data[<<"imheight">>])
                /\ disk' = [disk EXCEPT ![folders[index]].labels = ResetLabels(@)]
                /\ img_paths' \in GlobOrders(Dir.images)
                /\ k' = 1
                /\ written' = <<>>
                /\ globbed' = (folders[index] :> img_paths') @@ globbed
                /\ pc' = "frames"
                /\ UNCHANGED error
    /\ UNCHANGED <<folders, index, run, before, args, result>>

\* lines 132-167: one iteration of the loop over img_paths
ProcessFrame ==
    /\ pc = "frames"
    /\ k <= Len(img_paths)
    /\ LET fname == img_paths[k]
           rows  == FrameRows(Dir.gt, FrameId(img_paths, k))
           out   == RowLoop(Dir.gt, rows, id_map, ball_id, im_width, im_height,
                            <<>>, <<>>)
       IN  IF ~PyIntOk(fname)
           THEN Fail("ValueError") /\ UNCHANGED <<disk, written, k>>
           ELSE IF Dir.gt = <<>>
           THEN Fail("EmptyDataError") /\ UNCHANGED <<disk, written, k>>
           ELSE IF rows = <<>>
           THEN Fail("KeyError") /\ UNCHANGED <<disk, written, k>>
           ELSE /\ disk' = [disk EXCEPT ![folders[index]].labels.files =
                                            (fname :> out.lines) @@ @]
                /\ written' = (fname :> out.origin) @@ written
                /\ IF out.err # None
                   THEN Fail(out.err) /\ UNCHANGED k
                   ELSE k' = k + 1 /\ UNCHANGED <<pc, error>>
    /\ UNCHANGED <<folders, index, tracklets, id_map, ball_id, im_width, im_height,
                   img_paths, globbed, run, before, args, result>>

\* process_data returns and the loop over the folders goes on
ProcessDataEnd ==
    /\ pc = "frames"
    /\ k > Len(img_paths)
    /\ pc' = "main"
    /\ index' = index + 1
    /\ tracklets' = <<>> /\ id_map' = <<>> /\ ball_id' = <<>>
    /\ im_width' = 0 /\ im_height' = 0 /\ img_paths' = <<>> /\ k' = 0
    /\ written' = <<>>
    /\ UNCHANGED <<folders, disk, error, globbed, run, before, args, result>>

\* the loop over the folders ends: exit status 0
MainEnd ==
    /\ pc = "main"
    /\ index > Len(folders)
    /\ pc' = "done"
    /\ UNCHANGED <<folders, disk, error, index, Locals, written, globbed, run, before,
                   args, result>>

Labels == [f \in DOMAIN disk |-> disk[f].labels]

\* the script is started again on the same root directory
Rerun ==
    /\ pc \in {"done", "failed"}
    /\ run < MaxRuns
    /\ run' = run + 1
    /\ before' = [pc |-> pc, error |-> error, labels |-> Labels, globbed |-> globbed]
    /\ pc' = "main"
    /\ error' = None
    /\ index' = 1
    /\ globbed' = <<>>
    /\ written' = <<>>
    /\ tracklets' = <<>> /\ id_map' = <<>> /\ ball_id' = <<>>
    /\ im_width' = 0 /\ im_height' = 0 /\ img_paths' = <<>> /\ k' = 0
    /\ UNCHANGED <<folders, disk, args, result>>

Next == ProcessDataBegin \/ ProcessFrame \/ ProcessDataEnd \/ MainEnd \/ Rerun

Spec == Init /\ [][Next]_vars

(***************************************************************************)
(* Single applications of the two pure functions                           *)
(***************************************************************************)
MaxTracklets == 2
MaxSide == 29

S_Goalkeeper == <<"G", "o", "a", "l", "k", "e", "e", "p", "e", "r">>

Fragments == {<<>>, S_goalkeeper, S_player, S_referee, S_Goalkeeper}

Roles == {a \o b : a, b \in Fragments}

\* str(n) for 0 <= n <= 9
Str(n) == <<Digits[n + 1]>>

NumValues == {Str(n) : n \in 0..MaxTracklets} \cup {<<"-", "1">>, <<"x">>}

OptionSets ==
    UNION {[{TrackletKey(i) : i \in K} -> Roles] : K \in SUBSET (1..MaxTracklets)}

GameInfos ==
    {NoIni} \cup {Ini(opts) : opts \in OptionSets}
            \cup {Ini((<<"num_tracklets">> :> n) @@ opts) : n \in NumValues, opts \in OptionSets}

Rectangles ==
    [x0 : {-1, 0, 3}, y0 : {0, 2}, width : (-1)..MaxSide, height : {1, MaxSide},
     img_width : {1, 4, 7, 10}, img_height : {2, 7}]

Idle ==
    /\ folders = <<>> /\ disk = <<>> /\ error = None /\ index = 0
    /\ tracklets = <<>> /\ id_map = <<>> /\ ball_id = <<>>
    /\ im_width = 0 /\ im_height = 0 /\ img_paths = <<>> /\ k = 0
    /\ written = <<>> /\ globbed = <<>> /\ run = 0 /\ before = <<>>

InitParse == Idle /\ pc = "call" /\ args \in GameInfos /\ result = <<>>

InitRect == Idle /\ pc = "call" /\ args \in Rectangles /\ result = <<>>

CallParseGameinfo ==
    /\ pc = "call"
    /\ result' = parse_gameinfo(args)
    /\ pc' = "ret"
    /\ UNCHANGED <<folders, disk, error, index, Locals, written, globbed, run, before, args>>

CallRectangle ==
    /\ pc = "call"
    /\ result' = rectangle_to_polygon_normalized(args.x0, args.y0, args.width, args.height,
                                                 args.img_width, args.img_height)
    /\ pc' = "ret"
    /\ UNCHANGED <<folders, disk, error, index, Locals, written, globbed, run, before, args>>

SpecParse == InitParse /\ [][CallParseGameinfo]_vars

SpecRect == InitRect /\ [][CallRectangle]_vars

(***************************************************************************)
(* Properties of a run                                                     *)
(***************************************************************************)
\* a process_data call is in its loop over the images, or was ended there by an
\* exception (one raised before the loop leaves k = 0)
InCall == pc = "frames" \/ (pc = "failed" /\ k > 0)

\* the positions of img_paths whose iteration has completed without an exception
Completed == 1..(k - 1)

\* the positions whose iteration has begun
Visited == IF pc = "failed" THEN 1..k ELSE 1..(k - 1)

Files == Dir.labels.files

\* the ground-truth rows of a frame, by index
RowsOfFrame(frame) == {i \in 1..Len(Dir.gt) : Dir.gt[i].frame_id = frame}

\* the tracklet that is the ball: the one whose role string is exactly "ball;1"
BallTracks == {t \in DOMAIN tracklets : tracklets[t] = S_ball1}

IsBallRow(i) ==
    /\ Dir.gt[i].track_id \in BallTracks
    /\ \A t \in BallTracks : Dir.gt[i].track_id <= t

Increasing(seq) == \A i, j \in DOMAIN seq : i < j => seq[i] < seq[j]

\* C1 (ball exclusion): no line of a label file written by the running
\* process_data call comes from a ground-truth row whose track_id is the ball's
\* tracklet ID, and every line of such a file comes from some row.
C1_BallExclusion ==
    InCall =>
        \A stem \in DOMAIN written :
            /\ stem \in DOMAIN Files
            /\ Len(Files[stem]) = Len(written[stem])
            /\ \A n \in DOMAIN written[stem] : ~IsBallRow(written[stem][n])

\* a frame with a ball row and another row has been written
C1_Witness ==
    /\ InCall
    /\ \E stem \in DOMAIN written :
          /\ Len(Files[stem]) > 0
          /\ \E i \in RowsOfFrame(PyInt(stem)) : IsBallRow(i)

\* C2 as claimed: an image whose frame has no ground-truth row is processed
\* without failure and gets an empty label file.
C2_EmptyFrameGetsEmptyFile ==
    InCall =>
        \A j \in Visited :
            (PyIntOk(img_paths[j]) /\ RowsOfFrame(PyInt(img_paths[j])) = {}) =>
                /\ ~(pc = "failed" /\ j = k)
                /\ img_paths[j] \in DOMAIN Files
                /\ Files[img_paths[j]] = <<>>

\* C3: the label file of a completed frame has one line per non-ball row of that
\* frame, in table order, each starting with id_map[track_id] of its row, and no
\* line from a row of another frame.
C3_LinesOfFrame ==
    InCall =>
        \A j \in Completed :
            LET stem   == img_paths[j]
                origin == written[stem]
            IN  /\ stem \in DOMAIN Files
                /\ Len(Files[stem]) = Len(origin)
                /\ Increasing(origin)
                /\ Range(origin) = {i \in RowsOfFrame(PyInt(stem)) :
                                       <<Dir.gt[i].track_id>> # ball_id}
                /\ \A n \in DOMAIN origin :
                       Files[stem][n][1] = id_map[Dir.gt[origin[n]].track_id]

\* a completed frame with two lines, a ball row skipped and a row of another
\* frame in the table
C3_Witness ==
    /\ InCall
    /\ \E j \in Completed :
          /\ Len(Files[img_paths[j]]) >= 2
          /\ \E i \in 1..Len(Dir.gt) : Dir.gt[i].frame_id # PyInt(img_paths[j])

RunEnded == pc \in {"done", "failed"}

C5_UnknownTrackFails ==
    /\ InCall =>
          /\ \A j \in Completed : \A i \in RowsOfFrame(PyInt(img_paths[j])) :
                 <<Dir.gt[i].track_id>> # ball_id => Dir.gt[i].track_id \in DOMAIN id_map
          /\ \A stem \in DOMAIN written : \A n \in DOMAIN written[stem] :
                 Dir.gt[written[stem][n]].track_id \in DOMAIN id_map
          /\ \A stem \in DOMAIN written : Len(Files[stem]) = Len(written[stem])
    /\ pc = "done" => error = None

\* the run has failed with a KeyError on a row of an unknown track, after a line
\* of the same frame was written
C5_Witness ==
    /\ pc = "failed" /\ k > 0 /\ error = "KeyError"
    /\ img_paths[k] \in DOMAIN written
    /\ Len(written[img_paths[k]]) > 0
    /\ \E i \in RowsOfFrame(PyInt(img_paths[k])) :
          /\ <<Dir.gt[i].track_id>> # ball_id
          /\ Dir.gt[i].track_id \notin DOMAIN id_map
          /\ \A n \in DOMAIN written[img_paths[k]] : written[img_paths[k]][n] < i

\* C6 (fail fast): an exception ends the run; within a run only the labels/ of
\* the folder being processed changes, and never after an exception; and the
\* next folder is only begun when the loop over the images of the current one
\* has ended.
C6_FailFast ==
    /\ [](error # None <=> pc = "failed")
    /\ [][run' = run =>
            /\ \A f \in DOMAIN disk :
                   disk'[f] # disk[f] => (f = folders[index] /\ error = None
                                          /\ pc \in {"main", "frames"})
            /\ pc = "failed" => (pc' = "failed" /\ disk' = disk)
            /\ index' # index => (pc = "frames" /\ k > Len(img_paths)
                                  /\ index' = index + 1)]_vars

\* the first folder failed in its second image; the folder after it has no labels/
C6_Witness ==
    /\ pc = "failed" /\ run = 1 /\ k > 1
    /\ index < Len(folders)
    /\ ~disk[folders[index + 1]].labels.exists

Returned == pc = "ret" /\ result.err = None

Options == args["Sequence"]

\* C7: parse_gameinfo returns one registry entry and one category per tracklet
\* 1..num_tracklets, the registry entry being the role string of the file and the
\* category the first match of: contains "goalkeeper" -> 1, contains "player" -> 2,
\* contains "referee" -> 3, otherwise 0 (case-sensitive).
C7_CategoryByFirstMatch ==
    Returned =>
        /\ DOMAIN result.tracklets = 1..PyInt(Options[<<"num_tracklets">>])
        /\ DOMAIN result.id_map = DOMAIN result.tracklets
        /\ \A i \in DOMAIN result.tracklets :
              LET value == result.tracklets[i]
                  code  == result.id_map[i]
              IN  /\ value = Options[TrackletKey(i)]
                  /\ Contains(S_goalkeeper, value) => code = 1
                  /\ (~Contains(S_goalkeeper, value) /\ Contains(S_player, value)) => code = 2
                  /\ (~Contains(S_goalkeeper, value) /\ ~Contains(S_player, value)
                      /\ Contains(S_referee, value)) => code = 3
                  /\ (~Contains(S_goalkeeper, value) /\ ~Contains(S_player, value)
                      /\ ~Contains(S_referee, value)) => code = 0

\* two tracklets: one role with "player" before "goalkeeper" classified 1, one role
\* with "Goalkeeper" and "referee" classified 3
C7_Witness ==
    /\ Returned
    /\ \E i, j \in DOMAIN result.tracklets :
          /\ result.tracklets[i] = S_player \o S_goalkeeper /\ result.id_map[i] = 1
          /\ result.tracklets[j] = S_Goalkeeper \o S_referee /\ result.id_map[j] = 3

\* C9 as claimed: parse_gameinfo fails when the [Sequence] section or the key of a
\* tracklet 1..num_tracklets is missing, or when num_tracklets is not a positive
\* integer.
C9_BadConfigFails ==
    pc = "ret" =>
        ((\/ ~HasKey(args, <<"num_tracklets">>)
          \/ ~PyIntOk(Options[<<"num_tracklets">>])
          \/ PyInt(Options[<<"num_tracklets">>]) <= 0
          \/ \E i \in 1..PyInt(Options[<<"num_tracklets">>]) : ~HasKey(args, TrackletKey(i)))
         => result.err # None)

(***************************************************************************)
(* Properties of rectangle_to_polygon_normalized                           *)
(***************************************************************************)
\* arithmetic on the bit sequences, to state what the floats are worth
BvShl(b, n) == IF b = <<>> THEN <<>> ELSE b \o Zeros(n)

BvPad(b, n) == Zeros(n - Len(b)) \o b

BvLess(a, b) ==
    \/ Len(a) < Len(b)
    \/ /\ Len(a) = Len(b)
       /\ \E i \in 1..Len(a) : a[i] < b[i] /\ \A j \in 1..(i - 1) : a[j] = b[j]

BvWidth(a, b) == IF Len(a) < Len(b) THEN Len(b) ELSE Len(a)

\* a + b on equal lengths: bit i gets a carry when a lower position generates one
\* and every position between passes it on
BvAddEq(a, b) ==
    LET n == Len(a)
        carry(i) == \E j \in (i + 1)..n :
                        /\ a[j] + b[j] = 2
                        /\ \A m \in (i + 1)..(j - 1) : a[m] + b[m] = 1
        c(i) == IF carry(i) THEN 1 ELSE 0
    IN  <<c(0)>> \o [i \in 1..n |-> (a[i] + b[i] + c(i)) % 2]

BvAdd(a, b) == BvStrip(BvAddEq(BvPad(a, BvWidth(a, b)), BvPad(b, BvWidth(a, b))))

\* a - b on equal lengths for a >= b: bit i lends when a lower position borrows
\* and every position between passes the borrow on
BvSubEq(a, b) ==
    LET n == Len(a)
        borrow(i) == \E j \in (i + 1)..n :
                         /\ a[j] < b[j]
                         /\ \A m \in (i + 1)..(j - 1) : a[m] = b[m]
        c(i) == IF borrow(i) THEN 1 ELSE 0
    IN  [i \in 1..n |-> (a[i] - b[i] - c(i) + 2) % 2]

\* |a - b|
BvDist(a, b) ==
    IF BvLess(a, b)
    THEN BvStrip(BvSubEq(BvPad(b, BvWidth(a, b)), BvPad(a, BvWidth(a, b))))
    ELSE BvStrip(BvSubEq(BvPad(a, BvWidth(a, b)), BvPad(b, BvWidth(a, b))))

\* float(n) for a Python int
FromInt(n) == TrueDiv(n, 1)

\* x * n for a float x and a Python int n > 0
MulInt(x, n) ==
    IF x.man = <<>> THEN x
    ELSE LET p == BvMul(x.man, n)
         IN  RoundBits(x.neg, x.exp + Len(p) - MantBits, p, FALSE)

\* the corners of the rectangle, clockwise from the top left
CornerX == <<args.x0, args.x0 + args.width, args.x0 + args.width, args.x0>>
CornerY == <<args.y0, args.y0, args.y0 + args.height, args.y0 + args.height>>

\* corner n as (x, y) becomes the values 2n - 1 and 2n
Coordinate(n) == IF n % 2 = 1 THEN CornerX[(n + 1) \div 2] ELSE CornerY[n \div 2]
Dimension(n) == IF n % 2 = 1 THEN args.img_width ELSE args.img_height

\* x is the float nearest to c / d, for ints c and d > 0: a normalised 53 bit
\* significand with |x * d - c| at most half a unit of its last place times d
IsQuotient(x, c, d) ==
    IF c = 0 THEN x = FloatZero(FALSE)
    ELSE /\ x.neg = (c < 0)
         /\ Len(x.man) = MantBits /\ x.man[1] = 1
         /\ x.exp < MantBits
         /\ LET dist == BvDist(BvMul(x.man, d),
                               BvShl(BvFromInt(Abs(c)), MantBits - 1 - x.exp))
            IN  Len(dist) < MantBits \div 2 /\ 2 * BvToInt(dist) <= d

\* a float of exponent -1 or more as a signed multiple of 2^-MantBits
Fixed(x) ==
    [neg |-> x.neg /\ x.man # <<>>,
     mag |-> BvShl(x.man, x.exp + 1)]

FixedInt(n) == [neg |-> n < 0, mag |-> BvShl(BvFromInt(Abs(n)), MantBits)]

FixedAdd(a, b) ==
    IF a.neg = b.neg THEN [neg |-> a.neg, mag |-> BvAdd(a.mag, b.mag)]
    ELSE IF BvLess(a.mag, b.mag) THEN [neg |-> b.neg, mag |-> BvDist(a.mag, b.mag)]
    ELSE [neg |-> a.neg /\ a.mag # b.mag, mag |-> BvDist(a.mag, b.mag)]

\* value n of the result times the image dimension (a float product)
Denormalized(n) == MulInt(result[n], Dimension(n))

\* the result is eight values, the quotients of the four corners
EightQuotients ==
    /\ Len(result) = 8
    /\ \A n \in 1..8 : IsQuotient(result[n], Coordinate(n), Dimension(n))

====
